---- MODULE Spec2Model ----
(***************************************************************************)
(* Bandwidth-Monitor (src/main.cpp): a window loop that redraws a bar      *)
(* chart of randomly simulated connection rates once per second.           *)
(*                                                                         *)
(* Floats are modelled as exact rationals extended with the IEEE-754       *)
(* special values NaN, +Inf and -Inf, which is what float division by      *)
(* zero produces on the platforms SFML builds for.  Rates drawn by the     *)
(* uniform distribution are taken from a finite grid of [minRate,maxRate]  *)
(* that contains both end points.  The user's window events arrive at any  *)
(* point of the loop.  maxTransfer and frame hold what drawAll computed    *)
(* and submitted in the current tick; they are cleared when a tick starts. *)
(***************************************************************************)
EXTENDS Integers, Sequences, FiniteSets

VARIABLES
    pc,               \* position of the single thread in main()/run()
    windowOpen,       \* sf::RenderWindow::isOpen()
    events,           \* the window's pending event queue
    font,             \* sf::Font: "unloaded", "loaded" or "failed"
    rates,            \* connections[i].transferRate, in creation order
    maxTransfer,      \* drawAll's local maxTransfer, as computed in the current tick
    frame,            \* the rectangles and labels drawAll submitted in the current tick
    errStream,        \* lines written to std::cerr
    exitCode,         \* <<>> while running, <<c>> once main returned c
    trace,            \* steps of the current tick executed so far
    everSimulated,    \* simulateAll has run at least once
    closeRaised,      \* a Closed event has been raised by the user
    sleepsSinceClose  \* 1-second sleeps executed since the first Closed event

vars == <<pc, windowOpen, events, font, rates, maxTransfer, frame, errStream,
          exitCode, trace, everSimulated, closeRaised, sleepsSinceClose>>

----------------------------------------------------------------------------
(* Program constants *)

width == 1600
height == 1200
minRate == 1000
maxRate == 5000
numConnections == 5
labelMargin == 100
labelOffset == 20
EXIT_FAILURE_CODE == 1
EXIT_SUCCESS_CODE == 0

(* Model bounds *)

RateSteps == 2      \* the grid of drawn rates has RateSteps + 1 points
MaxEvents == 2      \* pending events the window queue holds at most

Conns == 1..numConnections

----------------------------------------------------------------------------
(* Float arithmetic: k is "fin" (the rational n/d, d > 0, in lowest terms), *)
(* "nan", "inf" or "ninf".                                                  *)

RECURSIVE GCD(_, _)
GCD(a, b) == IF b = 0 THEN a ELSE GCD(b, a % b)

Abs(a) == IF a < 0 THEN -a ELSE a

NaN == [k |-> "nan", n |-> 0, d |-> 1]
PInf == [k |-> "inf", n |-> 0, d |-> 1]
NInf == [k |-> "ninf", n |-> 0, d |-> 1]

Fin(n, d) ==
    LET g == GCD(Abs(n), Abs(d))
        s == IF d < 0 THEN -1 ELSE 1
    IN  [k |-> "fin", n |-> (s * n) \div g, d |-> (s * d) \div g]

F(i) == Fin(i, 1)

FNeg(a) ==
    CASE a.k = "fin" -> Fin(-a.n, a.d)
      [] a.k = "inf" -> NInf
      [] a.k = "ninf" -> PInf
      [] OTHER -> NaN

FAdd(a, b) ==
    CASE a.k = "nan" \/ b.k = "nan" -> NaN
      [] a.k = "fin" /\ b.k = "fin" -> Fin(a.n * b.d + b.n * a.d, a.d * b.d)
      [] a.k = "fin" -> b
      [] b.k = "fin" -> a
      [] a.k = b.k -> a
      [] OTHER -> NaN

FSub(a, b) == FAdd(a, FNeg(b))

FSign(a) ==
    CASE a.k = "fin" -> (IF a.n > 0 THEN 1 ELSE IF a.n < 0 THEN -1 ELSE 0)
      [] a.k = "inf" -> 1
      [] a.k = "ninf" -> -1
      [] OTHER -> 0

FMul(a, b) ==
    CASE a.k = "nan" \/ b.k = "nan" -> NaN
      [] a.k = "fin" /\ b.k = "fin" ->
            LET g == GCD(Abs(a.n), b.d)
                h == GCD(Abs(b.n), a.d)
            IN  Fin((a.n \div g) * (b.n \div h), (a.d \div h) * (b.d \div g))
      [] FSign(a) * FSign(b) > 0 -> PInf
      [] FSign(a) * FSign(b) < 0 -> NInf
      [] OTHER -> NaN

FDiv(a, b) ==
    CASE a.k = "nan" \/ b.k = "nan" -> NaN
      [] a.k = "fin" /\ b.k = "fin" /\ b.n # 0 -> Fin(a.n * b.d, a.d * b.n)
      [] a.k = "fin" /\ b.k = "fin" /\ b.n = 0 ->
            (IF a.n > 0 THEN PInf ELSE IF a.n < 0 THEN NInf ELSE NaN)
      [] a.k = "fin" -> F(0)
      [] b.k = "fin" -> (IF FSign(a) * (IF b.n < 0 THEN -1 ELSE 1) > 0 THEN PInf ELSE NInf)
      [] OTHER -> NaN

\* a <= b; every comparison with NaN is false
FLe(a, b) ==
    CASE a.k = "nan" \/ b.k = "nan" -> FALSE
      [] a.k = "fin" /\ b.k = "fin" -> a.n * b.d <= b.n * a.d
      [] a.k = "ninf" \/ b.k = "inf" -> TRUE
      [] OTHER -> FALSE

\* a > b
FGt(a, b) ==
    CASE a.k = "nan" \/ b.k = "nan" -> FALSE
      [] OTHER -> ~FLe(a, b)

FLt(a, b) == FGt(b, a)

----------------------------------------------------------------------------
(* Connection *)

\* static_cast<int>(rate): truncation toward zero of a finite float
ToInt(a) == IF a.n >= 0 THEN a.n \div a.d ELSE -((-a.n) \div a.d)

\* "Conn-" + std::to_string(i + 1), for the 1-based position i
ConnId(i) == <<"Conn-", i>>

\* Connection::Connection: transferRate(0.0f)
InitialRate == F(0)

\* The values uniform_real_distribution<float>(lo, hi) can return, on a grid
UniformGrid(lo, hi) ==
    { F(lo + (k * (hi - lo)) \div RateSteps) : k \in 0..RateSteps }

\* faults of simulateTransfer: the lower bound dropped; the upper bound doubled
simulateTransfer_FromZero(lo, hi) == UniformGrid(0, hi)

simulateTransfer_Doubled(lo, hi) == UniformGrid(lo, 2 * hi)

\* Connection::simulateTransfer: the possible new values of transferRate
simulateTransfer(lo, hi) == UniformGrid(lo, hi)

----------------------------------------------------------------------------
(* BandwidthMonitor::drawAll *)

\* the loop "if (conn.getRate() > maxTransfer) maxTransfer = conn.getRate()"
RECURSIVE MaxFold(_, _, _)
MaxFold(rs, i, m) ==
    IF i > Len(rs) THEN m
    ELSE MaxFold(rs, i + 1, IF FGt(rs[i], m) THEN rs[i] ELSE m)

\* fault: the scan stops one connection short
MaxTransferOf_SkipLast(rs) == MaxFold(SubSeq(rs, 1, Len(rs) - 1), 1, F(0))

MaxTransferOf(rs) == MaxFold(rs, 1, F(0))

\* width / (connections.size() * 2.0f)
BarWidth(n) == FDiv(F(width), FMul(F(n), F(2)))

\* fault: the label margin is not reserved
BarHeight_NoMargin(rate, maxT) == FMul(FDiv(rate, maxT), F(height))

\* heightRatio = rate / maxTransfer; barHeight = heightRatio * (height - 100)
BarHeight(rate, maxT) == FMul(FDiv(rate, maxT), F(height - labelMargin))

\* fault: the slot width is left out of the product
BarX_NoWidth(i, bw) == FAdd(FMul(F(i), F(2)), FDiv(bw, F(2)))

\* x = i * 2 * barWidth + barWidth / 2, for the 0-based index i
BarX(i, bw) == FAdd(FMul(FMul(F(i), F(2)), bw), FDiv(bw, F(2)))

\* y = height - barHeight
BarY(bh) == FSub(F(height), bh)

\* the sf::RectangleShape of connection i (1-based position in the vector)
Bar(i, rs, maxT) ==
    LET bw == BarWidth(Len(rs))
        bh == BarHeight(rs[i], maxT)
    IN  [x |-> BarX(i - 1, bw), y |-> BarY(bh), w |-> bw, h |-> bh]

\* the sf::Text of connection i
Label(i, rs, b) ==
    [id |-> ConnId(i), rate |-> ToInt(rs[i]),
     x |-> b.x, y |-> FSub(b.y, F(labelOffset))]

\* everything drawAll draws between window.clear() and window.display()
DrawFrame(rs) ==
    LET m == MaxTransferOf(rs)
        bars == [i \in 1..Len(rs) |-> Bar(i, rs, m)]
    IN  [bars |-> bars,
         labels |-> [i \in 1..Len(rs) |-> Label(i, rs, bars[i])]]

EmptyFrame == [bars |-> <<>>, labels |-> <<>>]

----------------------------------------------------------------------------
(* BandwidthMonitor::handleEvents *)

\* fault: "if (window.pollEvent(event))", one event per call
PollEvents_Once(q, open) ==
    IF ~open THEN [open |-> FALSE, q |-> <<>>]
    ELSE IF q = <<>> THEN [open |-> TRUE, q |-> <<>>]
    ELSE IF Head(q) = "Closed" THEN [open |-> FALSE, q |-> <<>>]
    ELSE [open |-> TRUE, q |-> Tail(q)]

\* while (window.pollEvent(event)) if (event.type == Closed) window.close();
\* pollEvent returns false once the window is closed.
\* The result is the window's state and the events still pending.
RECURSIVE PollEvents(_, _)
PollEvents(q, open) ==
    IF ~open THEN [open |-> FALSE, q |-> <<>>]
    ELSE IF q = <<>> THEN [open |-> TRUE, q |-> <<>>]
    ELSE PollEvents(Tail(q), Head(q) # "Closed")

----------------------------------------------------------------------------
(* BandwidthMonitor::run *)

TickSteps == <<"handleEvents", "simulateAll", "drawAll", "sleep">>

\* fault: drawAll() is called before simulateAll()
NextStep_DrawFirst(p) ==
    CASE p = "handleEvents" -> "drawAll"
      [] p = "drawAll" -> "simulateAll"
      [] p = "simulateAll" -> "sleep"
      [] p = "sleep" -> "while"

\* the statement that follows statement p of the loop body
NextStep(p) ==
    CASE p = "handleEvents" -> "simulateAll"
      [] p = "simulateAll" -> "drawAll"
      [] p = "drawAll" -> "sleep"
      [] p = "sleep" -> "while"

\* fault: while (true)
LoopContinues_Always(open) == TRUE

\* while (window.isOpen())
LoopContinues(open) == open

----------------------------------------------------------------------------
(* main *)

FontError == "Font file not found."

\* fault: the handler falls through to "return 0"
MainCatch_Success(what) == [line |-> <<"Error: ", what>>, code |-> EXIT_SUCCESS_CODE]

\* catch (const std::exception& e): the line written and the value returned
MainCatch(what) == [line |-> <<"Error: ", what>>, code |-> EXIT_FAILURE_CODE]

----------------------------------------------------------------------------
(* Actions *)

Init ==
    /\ pc = "main"
    /\ windowOpen = FALSE
    /\ events = <<>>
    /\ font = "unloaded"
    /\ rates = <<>>
    /\ maxTransfer = F(0)
    /\ frame = EmptyFrame
    /\ errStream = <<>>
    /\ exitCode = <<>>
    /\ trace = <<>>
    /\ everSimulated = FALSE
    /\ closeRaised = FALSE
    /\ sleepsSinceClose = 0

\* main: BandwidthMonitor monitor(5), the font file is readable
ConstructOk ==
    /\ pc = "main"
    /\ pc' = "while"
    /\ windowOpen' = TRUE
    /\ font' = "loaded"
    /\ rates' = [i \in Conns |-> InitialRate]
    /\ UNCHANGED <<everSimulated, events, maxTransfer, frame, errStream, exitCode, trace,
                   closeRaised, sleepsSinceClose>>

\* main: the constructor throws, the members are destroyed, main catches
ConstructFail ==
    /\ pc = "main"
    /\ pc' = "done"
    /\ windowOpen' = FALSE
    /\ rates' = <<>>
    /\ font' = "failed"
    /\ errStream' = Append(errStream, MainCatch(FontError).line)
    /\ exitCode' = <<MainCatch(FontError).code>>
    /\ UNCHANGED <<everSimulated, events, maxTransfer, frame, trace, closeRaised,
                   sleepsSinceClose>>

\* run: the loop test succeeds, a tick starts
LoopEnter ==
    /\ pc = "while"
    /\ LoopContinues(windowOpen)
    /\ pc' = "handleEvents"
    /\ trace' = <<>>
    /\ maxTransfer' = F(0)
    /\ frame' = EmptyFrame
    /\ UNCHANGED <<everSimulated, font, windowOpen, events, rates, errStream, exitCode,
                   closeRaised, sleepsSinceClose>>

\* run: the loop test fails, run returns and main returns 0
LoopExit ==
    /\ pc = "while"
    /\ ~LoopContinues(windowOpen)
    /\ pc' = "done"
    /\ exitCode' = <<EXIT_SUCCESS_CODE>>
    /\ UNCHANGED <<everSimulated, font, windowOpen, events, rates, maxTransfer, frame, errStream,
                   trace, closeRaised, sleepsSinceClose>>

HandleEvents ==
    /\ pc = "handleEvents"
    /\ windowOpen' = PollEvents(events, windowOpen).open
    /\ events' = PollEvents(events, windowOpen).q
    /\ pc' = NextStep("handleEvents")
    /\ trace' = Append(trace, "handleEvents")
    /\ UNCHANGED <<everSimulated, font, rates, maxTransfer, frame, errStream, exitCode,
                   closeRaised, sleepsSinceClose>>

SimulateAll ==
    /\ pc = "simulateAll"
    /\ rates' \in [DOMAIN rates -> simulateTransfer(minRate, maxRate)]
    /\ pc' = NextStep("simulateAll")
    /\ trace' = Append(trace, "simulateAll")
    /\ everSimulated' = TRUE
    /\ UNCHANGED <<font, windowOpen, events, maxTransfer, frame, errStream,
                   exitCode, closeRaised, sleepsSinceClose>>

DrawAll ==
    /\ pc = "drawAll"
    /\ maxTransfer' = MaxTransferOf(rates)
    /\ frame' = DrawFrame(rates)
    /\ pc' = NextStep("drawAll")
    /\ trace' = Append(trace, "drawAll")
    /\ UNCHANGED <<everSimulated, font, windowOpen, events, rates, errStream, exitCode,
                   closeRaised, sleepsSinceClose>>

\* std::this_thread::sleep_for(1000 ms)
Sleep ==
    /\ pc = "sleep"
    /\ pc' = NextStep("sleep")
    /\ trace' = Append(trace, "sleep")
    /\ sleepsSinceClose' = IF closeRaised THEN sleepsSinceClose + 1
                           ELSE sleepsSinceClose
    /\ UNCHANGED <<everSimulated, font, windowOpen, events, rates, maxTransfer, frame, errStream,
                   exitCode, closeRaised>>

\* the user asks the window to close: a Closed event is queued
UserClose ==
    /\ windowOpen
    /\ Len(events) < MaxEvents
    /\ events' = Append(events, "Closed")
    /\ closeRaised' = TRUE
    /\ UNCHANGED <<everSimulated, font, pc, windowOpen, rates, maxTransfer, frame, errStream,
                   exitCode, trace, sleepsSinceClose>>

\* any other window event (mouse, key, focus) is queued
UserOther ==
    /\ windowOpen
    /\ Len(events) < MaxEvents
    /\ events' = Append(events, "Other")
    /\ UNCHANGED <<everSimulated, font, pc, windowOpen, rates, maxTransfer, frame, errStream,
                   exitCode, trace, closeRaised, sleepsSinceClose>>

Next ==
    \/ ConstructOk
    \/ ConstructFail
    \/ LoopEnter
    \/ LoopExit
    \/ HandleEvents
    \/ SimulateAll
    \/ DrawAll
    \/ Sleep
    \/ UserClose
    \/ UserOther

Spec == Init /\ [][Next]_vars

----------------------------------------------------------------------------
(* The layout of drawAll applied to the snapshots a vector of connections  *)
(* can hold: all rates as constructed, or any outcome of simulateAll.      *)

AllInitial(rs) == \A i \in DOMAIN rs : rs[i] = InitialRate

LayoutInputs ==
    {[i \in Conns |-> InitialRate]} \cup [Conns -> simulateTransfer(minRate, maxRate)]

InitLayout ==
    /\ pc = "drawAll"
    /\ windowOpen = TRUE
    /\ events = <<>>
    /\ font = "loaded"
    /\ rates \in LayoutInputs
    /\ maxTransfer = F(0)
    /\ frame = EmptyFrame
    /\ errStream = <<>>
    /\ exitCode = <<>>
    /\ trace = <<>>
    /\ everSimulated = ~AllInitial(rates)
    /\ closeRaised = FALSE
    /\ sleepsSinceClose = 0

LayoutInput ==
    /\ pc = "sleep"
    /\ pc' = "drawAll"
    /\ rates' \in LayoutInputs
    /\ trace' = <<>>
    /\ maxTransfer' = F(0)
    /\ frame' = EmptyFrame
    /\ everSimulated' = ~AllInitial(rates')
    /\ UNCHANGED <<font, windowOpen, events, errStream, exitCode, closeRaised,
                   sleepsSinceClose>>

NextLayout ==
    \/ DrawAll
    \/ LayoutInput

SpecLayout == InitLayout /\ [][NextLayout]_vars

----------------------------------------------------------------------------
(* Properties *)

Range(f) == {f[x] : x \in DOMAIN f}

InRange(r) == FLe(F(minRate), r) /\ FLe(r, F(maxRate))

AllInRange(rs) == \A i \in DOMAIN rs : InRange(rs[i])

AllZero(rs) == \A i \in DOMAIN rs : rs[i] = F(0)

\* drawAll has run in the current tick
Drawn == "drawAll" \in Range(trace)

\* simulateAll has run in the current tick
Simulated == "simulateAll" \in Range(trace)

\* C1: at the moment the layout is computed, after simulateAll of the same
\* tick, every channel's rate lies in [minRate, maxRate]; so does every rate
\* a submitted frame displays.
C1_RatesInRangeAtLayout ==
    /\ pc = "drawAll" => Simulated /\ rates # <<>> /\ AllInRange(rates)
    /\ Drawn =>
        \A i \in DOMAIN frame.labels :
            minRate <= frame.labels[i].rate /\ frame.labels[i].rate <= maxRate

C1_Witness ==
    /\ pc = "drawAll"
    /\ \E i, j \in DOMAIN rates : rates[i] = F(minRate) /\ rates[j] = F(maxRate)

\* C2: the normalization maximum computed by drawAll is greater than or equal
\* to every channel's rate of the same tick, and is one of those rates.
C2_MaxDominatesRates ==
    Drawn =>
        /\ \A i \in DOMAIN rates : FLe(rates[i], maxTransfer)
        /\ maxTransfer \in Range(rates)

C2_Witness ==
    /\ Drawn
    /\ rates[numConnections] = maxTransfer
    /\ \A i \in 1..(numConnections - 1) : FLt(rates[i], maxTransfer)

\* C3: every bar height submitted lies in [0, height - 100], and is the
\* channel's share of the snapshot maximum times (height - 100).
C3_BarHeightBounded ==
    Drawn =>
        \A i \in DOMAIN frame.bars :
            /\ FLe(F(0), frame.bars[i].h)
            /\ FLe(frame.bars[i].h, F(height - labelMargin))
            /\ FMul(frame.bars[i].h, maxTransfer)
                  = FMul(rates[i], F(height - labelMargin))

C3_Witness ==
    /\ Drawn
    /\ \E i, j \in DOMAIN frame.bars :
          /\ frame.bars[i].h = F(height - labelMargin)
          /\ FLt(F(0), frame.bars[j].h)
          /\ FLt(frame.bars[j].h, F(height - labelMargin))

\* C4: in every frame the bar width is width / (2 * N), bar x-positions are
\* strictly increasing with the channel index, and consecutive bars do not
\* overlap: x(i) + barWidth <= x(i+1).
C4_BarsDoNotOverlap ==
    Drawn =>
        /\ Len(frame.bars) = numConnections
        /\ \A i \in DOMAIN frame.bars :
              FMul(frame.bars[i].w, F(2 * numConnections)) = F(width)
        /\ \A i \in 1..(Len(frame.bars) - 1) :
              /\ FLt(frame.bars[i].x, frame.bars[i + 1].x)
              /\ FLe(FAdd(frame.bars[i].x, frame.bars[i].w), frame.bars[i + 1].x)

C4_Witness ==
    /\ Drawn
    /\ Len(frame.bars) = numConnections
    /\ FLt(FAdd(frame.bars[1].x, frame.bars[1].w), frame.bars[2].x)

PcSteps ==
    { <<"main", "while">>, <<"main", "done">>,
      <<"while", "handleEvents">>, <<"while", "done">>,
      <<"handleEvents", "simulateAll">>, <<"simulateAll", "drawAll">>,
      <<"drawAll", "sleep">>, <<"sleep", "while">> }

IsPrefix(a, b) == Len(a) <= Len(b) /\ a = SubSeq(b, 1, Len(a))

\* What has run of the current tick matches the position in the loop body
TraceMatchesPc ==
    /\ IsPrefix(trace, TickSteps)
    /\ pc \in Range(TickSteps) => pc = TickSteps[Len(trace) + 1]
    /\ pc \in {"while", "done"} => trace \in {<<>>, TickSteps}

TickOrderStep ==
    /\ pc' # pc => <<pc, pc'>> \in PcSteps
    /\ rates' # rates => pc = "main" \/ (pc = "simulateAll" /\ pc' = "drawAll")
    /\ (frame' # frame /\ frame' # EmptyFrame) =>
          /\ pc = "drawAll" /\ pc' = "sleep"
          /\ Simulated /\ rates' = rates
          /\ Len(frame'.labels) = Len(rates)
          /\ \A i \in DOMAIN rates : frame'.labels[i].rate = ToInt(rates[i])

\* C6: every tick runs handleEvents, simulateAll, drawAll, sleep in this
\* order, none skipped, repeated or reordered, and a frame is drawn only from
\* the rates produced by simulateAll of the same tick.
C6_TickOrder == [] TraceMatchesPc /\ [][TickOrderStep]_vars

C6_Witness ==
    /\ pc = "while"
    /\ windowOpen
    /\ trace = TickSteps
    /\ frame # EmptyFrame

CancellationStep ==
    /\ (windowOpen /\ ~windowOpen') =>
          pc = "handleEvents" /\ "Closed" \in Range(events)
    /\ (~windowOpen /\ pc \in Range(TickSteps) /\ pc' # pc) =>
          /\ pc # "handleEvents"
          /\ pc' = (IF pc = "sleep" THEN "while"
                    ELSE TickSteps[Len(trace) + 2])
    /\ ~windowOpen => pc' # "handleEvents"
    /\ (pc = "while" /\ pc' = "done") => ~windowOpen /\ closeRaised

CancellationState ==
    (pc = "done" /\ font = "loaded") =>
        ~windowOpen /\ closeRaised /\ trace = TickSteps /\ frame # EmptyFrame

\* C7: the window is closed only by the poll of handleEvents on a Closed
\* event; the remaining steps of that tick still run, then the loop ends and
\* no further tick starts; the loop never ends without a Closed event having
\* been observed.
C7_CancellationPoint == [] CancellationState /\ [][CancellationStep]_vars

C7_Witness ==
    /\ pc = "done"
    /\ font = "loaded"
    /\ trace = TickSteps
    /\ ~windowOpen

\* C8 as stated: at most one 1-second sleep is executed between the close
\* signal being raised and the loop ending.
C8_AtMostOneSleep == sleepsSinceClose <= 1

\* C8 amended: at most two 1-second sleeps are executed between the close
\* signal being raised and the loop ending, and after the second one the
\* window is closed and no tick follows.
C8_AtMostTwoSleeps ==
    /\ sleepsSinceClose <= 2
    /\ sleepsSinceClose = 2 => ~windowOpen /\ pc \in {"while", "done"}

C8_Witness ==
    /\ pc = "done"
    /\ sleepsSinceClose = 2

\* C9: main returns 0 exactly when the loop ended through a window close and
\* 1 exactly when the font load failed; in the failure case an error line is
\* on the error stream and no step of a tick was ever executed.
C9_ExitCodes ==
    /\ exitCode # <<>> <=> pc = "done"
    /\ exitCode = <<EXIT_SUCCESS_CODE>> <=>
          (pc = "done" /\ font = "loaded" /\ ~windowOpen /\ closeRaised)
    /\ exitCode = <<EXIT_FAILURE_CODE>> <=> font = "failed"
    /\ font = "failed" =>
          /\ errStream = << <<"Error: ", FontError>> >>
          /\ trace = <<>> /\ frame = EmptyFrame /\ sleepsSinceClose = 0
          /\ rates = <<>>
    /\ font # "failed" => errStream = <<>>

C9_Witness ==
    /\ pc = "done"
    /\ font = "failed"
    /\ exitCode = <<EXIT_FAILURE_CODE>>

\* C10 as stated: in every state from channel creation until process exit
\* each channel's stored rate is within [minRate, maxRate].
C10_AlwaysInRange == rates # <<>> => AllInRange(rates)

\* C10 amended: every channel's rate is 0 from its creation until the first
\* simulateAll, and within [minRate, maxRate] in every state from then on.
C10_ZeroThenInRange ==
    rates # <<>> =>
        IF everSimulated THEN AllInRange(rates) ELSE AllZero(rates)

C10_Witness ==
    /\ pc = "handleEvents"
    /\ everSimulated
    /\ rates # <<>>
    /\ AllInRange(rates)

====
